---------------------------- MODULE Spec2Model ----------------------------
(***************************************************************************)
(* A model of the bag-of-tasks crawler: the Coordinator (coordinator.py),  *)
(* the Crawler workers (crawler.py), the shared ProxyManager               *)
(* (proxy_manager.py) and the single RabbitMQ queue they all use.          *)
(***************************************************************************)
EXTENDS Integers, Sequences, FiniteSets, TLC

(***************************************************************************)
(* Program constants (config.py, crawler.py).                              *)
(***************************************************************************)
MAX_RETRIES == 3
IP_BLOCK_DURATION == 3600
MIN_REQUEST_INTERVAL == 2
HEARTBEAT_INTERVAL == 180
max_retries == 3
GOOGLE_SCHOLAR_INTERVAL == 30
DBLP_INTERVAL == 30
QUEUE_HIGH_WATER == 500
ERROR_IP_BLOCKED == "IP blocked by service"
ERROR_RATE_LIMIT == "Rate limit exceeded"

(***************************************************************************)
(* Bounds of the model.                                                    *)
(***************************************************************************)
NumWorkers == 2
MaxTicks == 3
MaxQueue == 2
MaxCrawls == 2
MaxTasks == 4
MaxRounds == 3
MaxDeliveries == 2
MaxOutages == 1
MaxErrors == 2
NumCrawlers == 1
MaxCalls == 3
MaxForeign == 1
MaxRedeliveries == 1
MaxScan == 3

NumAuthors == 2

Workers == 1..NumWorkers
CoordinatorUnit == 0
Units == Workers \cup {CoordinatorUnit}
Authors == 1..NumAuthors

NoMsg == [nothing |-> TRUE]
NoTime == -1

VARIABLES
    proxy_list,     \* ProxyManager.proxy_list: sequence of ProxyInfo
    blocked_ips,    \* ProxyManager.blocked_ips: key -> block start time
    ip_last_used,   \* ProxyManager.ip_last_used: key -> last use time
    now,            \* the wall clock, datetime.now(), in seconds
    ticks,          \* number of clock advances so far (bounded)
    wk,             \* per worker thread: control position and locals
    obs,            \* what the units did so far (observation only)
    queue,          \* the broker's ready messages of QUEUE_NAME, FIFO
    inflight,       \* per unit: the delivery it holds unacknowledged
    co,             \* the Coordinator: control position and locals
    active_nodes,   \* Coordinator.active_nodes: node_id -> last seen
    last_crawl,     \* authors.last_crawl per author_id (NoTime for NULL)
    publications,   \* the publications table: rows (author_id, title, year)
    life            \* main.py: the broker, the shutdown flag, main and the threads

vars == <<proxy_list, blocked_ips, ip_last_used, now, ticks, life, wk, obs,
          queue, inflight, co, active_nodes, last_crawl, publications>>

pmVars == <<proxy_list, blocked_ips, ip_last_used>>
sysVars == <<queue, inflight, co, active_nodes, last_crawl, publications>>
dbVars == <<last_crawl, publications>>

(***************************************************************************)
(* Dictionaries as functions with a growing and shrinking domain.          *)
(***************************************************************************)
EmptyDict == <<>>
DictSet(d, k, v) == [x \in DOMAIN d \cup {k} |-> IF x = k THEN v ELSE d[x]]
DictDel(d, k) == [x \in DOMAIN d \ {k} |-> d[x]]

(***************************************************************************)
(* Proxies.  A ProxyInfo is (host, port, username, password); a missing    *)
(* username or password is the empty string.  A proxy URL is the sequence  *)
(* of its pieces, the separators ":" and "@" being pieces of their own, so *)
(* that str.split is modelled by what it does.                             *)
(***************************************************************************)
ProxyInfo(h, p, u, pw) == [host |-> h, port |-> p, username |-> u, password |-> pw]

PlainProxy == ProxyInfo("10.0.0.1", "8080", "", "")
AuthProxy == ProxyInfo("10.0.0.2", "8080", "user", "pass")

\* proxy files the manager may have loaded (_load_proxies keeps file order)
ProxyLists ==
    { <<PlainProxy>>, <<AuthProxy>>, <<PlainProxy, AuthProxy>>, <<AuthProxy, PlainProxy>> }

NoProxy == <<>>

\* _format_proxy_url
FormatProxyUrl(proxy) ==
    IF proxy.username # "" /\ proxy.password # ""
    THEN <<"http", ":", "//", proxy.username, ":", proxy.password, "@",
           proxy.host, ":", proxy.port>>
    ELSE <<"http", ":", "//", proxy.host, ":", proxy.port>>

\* index of the last occurrence of sep in s, 0 when there is none
RECURSIVE LastIndexOf(_, _, _)
LastIndexOf(s, sep, n) ==
    IF n = 0 THEN 0
    ELSE IF s[n] = sep THEN n ELSE LastIndexOf(s, sep, n - 1)

\* index of the first occurrence of sep in s at or after n, Len(s)+1 when none
RECURSIVE FirstIndexOf(_, _, _)
FirstIndexOf(s, sep, n) ==
    IF n > Len(s) THEN Len(s) + 1
    ELSE IF s[n] = sep THEN n ELSE FirstIndexOf(s, sep, n + 1)

\* s.split(sep)[-1]
SplitLast(s, sep) == SubSeq(s, LastIndexOf(s, sep, Len(s)) + 1, Len(s))

\* s.split(sep)[0]
SplitFirst(s, sep) == SubSeq(s, 1, FirstIndexOf(s, sep, 1) - 1)

\* the text of a run of pieces
RECURSIVE Text(_)
Text(s) == IF s = <<>> THEN "" ELSE Head(s) \o Text(Tail(s))

\* the host part of a proxy URL
HandleHost(proxy_url) ==
    Text(SplitFirst(SubSeq(SplitLast(proxy_url, "@"),
                           IF "@" \in {proxy_url[k] : k \in DOMAIN proxy_url} THEN 1 ELSE 4,
                           Len(SplitLast(proxy_url, "@"))), ":"))

\* proxy_url.split('@')[-1].split(':')[0]
ExtractIp(proxy_url) == Text(SplitFirst(SplitLast(proxy_url, "@"), ":"))

(***************************************************************************)
(* ProxyManager (proxy_manager.py).                                        *)
(***************************************************************************)
\* line 85: the IP is in blocked_ips and its block is younger than IP_BLOCK_DURATION
StillBlocked(ip, bl, ct) == ip \in DOMAIN bl /\ ct - bl[ip] < IP_BLOCK_DURATION

\* the test of line 91 with <= in the place of <
CoolingInclusive(ip, lu, ct) == ip \in DOMAIN lu /\ ct - lu[ip] <= MIN_REQUEST_INTERVAL

\* line 91: the IP was used less than MIN_REQUEST_INTERVAL ago
Cooling(ip, lu, ct) == ip \in DOMAIN lu /\ ct - lu[ip] < MIN_REQUEST_INTERVAL

\* the key under which get_proxy tracks a proxy (line 81)
TrackedIp(proxy) == proxy.host

\* get_proxy, the scan from position i on, run without interruption:
\* the handle returned (NoProxy for None) and the two maps afterwards
RECURSIVE GetProxyFrom(_, _, _, _)
GetProxyFrom(i, bl, lu, ct) ==
    IF i > Len(proxy_list)
    THEN [proxy |-> NoProxy, blocked |-> bl, last_used |-> lu]
    ELSE LET ip  == TrackedIp(proxy_list[i])
             bl2 == IF ip \in DOMAIN bl /\ ~StillBlocked(ip, bl, ct)
                    THEN DictDel(bl, ip) ELSE bl
         IN  IF StillBlocked(ip, bl, ct) THEN GetProxyFrom(i + 1, bl, lu, ct)
             ELSE IF Cooling(ip, lu, ct) THEN GetProxyFrom(i + 1, bl2, lu, ct)
             ELSE [proxy |-> FormatProxyUrl(proxy_list[i]),
                   blocked |-> bl2,
                   last_used |-> DictSet(lu, ip, ct)]

GetProxy(bl, lu, ct) == GetProxyFrom(1, bl, lu, ct)

\* mark_blocked: the blocked map afterwards
MarkBlocked(bl, proxy_url, t) == DictSet(bl, ExtractIp(proxy_url), t)

\* release_proxy: the last-used map afterwards
ReleaseProxy(lu, proxy_url) ==
    IF ExtractIp(proxy_url) \in DOMAIN lu THEN DictDel(lu, ExtractIp(proxy_url)) ELSE lu

(***************************************************************************)
(* The HTTP fetch as the worker sees it: what session.get, raise_for_status *)
(* and the parsing that follows can do.                                    *)
(***************************************************************************)
\* a request ends "ok" (2xx, parsed), with one of the RequestErrors, or with
\* "exception" (any other exception of the try block); after a 2xx the page
\* may also fail to parse, see ParseFailures
RequestErrors == {"http429", "http403", "http500", "neterror"}

Sources == {"google", "dblp", "acm"}

\* the status codes that str(error) of a failed request contains
ErrorCodes(r) ==
    CASE r = "http429" -> {"429"}
      [] r = "http403" -> {"403"}
      [] r = "http500" -> {"500"}
      [] OTHER -> {}

\* handle_request_error: whether it blocks the proxy, and the message it raises
BlocksProxy(r) == "429" \in ErrorCodes(r) \/ "403" \in ErrorCodes(r)

RequestErrorUnclassified(r) == "Request failed"

RequestErrorMessage(r) ==
    IF "429" \in ErrorCodes(r) THEN ERROR_RATE_LIMIT
    ELSE IF "403" \in ErrorCodes(r) THEN ERROR_IP_BLOCKED
    ELSE "Request failed"

\* what parse_google_scholar / parse_dblp may return for a page
Publication(src) == [title |-> "title1", year |-> 2020, source |-> src]
\* the same publication parsed with another year
Republished(src) == [Publication(src) EXCEPT !.year = 2021]

ParsedPages(src) == { <<>>, <<Publication(src)>> }

\* a 2xx page that is not parsed: "parsefail", the exception is raised inside
\* parse_google_scholar / parse_dblp, which log it and return what they have
\* (line 152-157, 186-190); "badpage", building the soup (line 75) raises an
\* exception that is not a ValueError
ParseFailures == {"parsefail", "badpage"}

NoOutcome == [kind |-> "none", pubs |-> <<>>, msg |-> ""]
Returns(p) == [kind |-> "return", pubs |-> p, msg |-> ""]
ReturnsNone == [kind |-> "return_none", pubs |-> <<>>, msg |-> ""]
Raises(m) == [kind |-> "raise", pubs |-> <<>>, msg |-> m]

(***************************************************************************)
(* crawl (crawler.py, line 53-99), run from its first statement to its     *)
(* return or raise.                                                        *)
(***************************************************************************)
\* one turn of the while loop that got a proxy: the handle, the time of the
\* get_proxy call and what the request did
Attempt(proxy, at, resp) == [proxy |-> proxy, at |-> at, resp |-> resp]

\* a finished crawl: how it ended, the ProxyManager's maps and the clock
\* afterwards, and the attempts it made
Run(out, bl, lu, t, trace) ==
    [outcome |-> out, blocked |-> bl, last_used |-> lu, time |-> t, trace |-> trace]

\* crawl giving up quietly when get_proxy returns None
NoProxiesSilent == ReturnsNone

\* line 60-62: get_proxy returned None
NoProxiesAvailable == Raises("No proxies available")

\* line 58: the loop test
LoopContinues(retry_count) == retry_count < max_retries

\* line 96: the sleep of the generic handler
Backoff(retry_count) == retry_count * 2

\* every way crawl can go on from the loop test with the given retry_count.
\* handle_request_error raises inside the handler of line 85, so a failed
\* request ends crawl (after the finally clause) and neither the sleep of
\* line 89 nor another turn of the loop follows it.
RECURSIVE CrawlFrom(_, _, _, _, _, _)
CrawlFrom(retry_count, source, bl, lu, t, trace) ==
    IF ~LoopContinues(retry_count)
    THEN {Run(ReturnsNone, bl, lu, t, trace)}
    ELSE
      LET g == GetProxy(bl, lu, t) IN
      IF g.proxy = NoProxy
      THEN {Run(NoProxiesAvailable, g.blocked, g.last_used, t, trace)}
      ELSE
        LET released == ReleaseProxy(g.last_used, g.proxy)
            tr(r)    == Append(trace, Attempt(g.proxy, t, r))
        IN  \* a 2xx page of a known source is parsed and returned
            {Run(Returns(p), g.blocked, released, t, tr("ok")) :
                p \in IF source \in {"google", "dblp"} THEN ParsedPages(source) ELSE {}}
            \cup
            \* a 2xx page of an unknown source: ValueError, raised again
            (IF source \in {"google", "dblp"} THEN {}
             ELSE {Run(Raises("Unknown source"), g.blocked, released, t, tr("ok"))})
            \cup
            \* a RequestException
            {Run(Raises(RequestErrorMessage(r)),
                 IF BlocksProxy(r) THEN MarkBlocked(g.blocked, g.proxy, t) ELSE g.blocked,
                 released, t, tr(r)) : r \in RequestErrors}
            \cup
            \* a 2xx page whose parser caught an exception: the list is returned
            {Run(Returns(p), g.blocked, released, t, tr("parsefail")) :
                p \in IF source \in {"google", "dblp"} THEN ParsedPages(source) ELSE {}}
            \cup
            \* any other exception, before or after the response:
            \* retry_count += 1, sleep, finally, loop
            UNION {CrawlFrom(retry_count + 1, source, g.blocked, released,
                             t + Backoff(retry_count + 1), tr(r)) :
                      r \in {"exception", "badpage"}}

\* crawl(url, source) called now
Crawl(source) == CrawlFrom(0, source, blocked_ips, ip_last_used, now, <<>>)

(***************************************************************************)
(* Worker threads, and what is recorded of their crawls for the statements *)
(* below (obs is written, never read, by the actions).                     *)
(***************************************************************************)
IdleWorker ==
    [pc |-> "idle",
     proxy |-> NoProxy, i |-> 0, ct |-> 0,   \* RaceSpec: get_proxy's locals
     held |-> <<>>]                          \* deliveries left unsettled on its channel

NoErr == [proxy |-> NoProxy, at |-> NoTime]
NoRun == [ran |-> FALSE, outcome |-> NoOutcome, trace |-> <<>>]
Ran(run) == [ran |-> TRUE, outcome |-> run.outcome, trace |-> run.trace]

FreshObs ==
    [crawls  |-> 0,                          \* crawls (RaceSpec: calls) so far
     foreign |-> 0,                          \* messages other programs published
     marked  |-> EmptyDict,                  \* handle -> time of the last mark_blocked
     err     |-> [w \in Workers |-> NoErr],  \* the worker's 429/403, until it next acquires
     run     |-> [w \in Workers |-> NoRun],  \* the crawl the worker has just made
     sent    |-> [w \in Workers |-> <<>>],   \* what the worker published for its delivery
     handled |-> <<>>,                       \* CoordSpec: what process_result was called with
     backlog |-> 0]                          \* the depth of the queue at the start

\* the handles mark_blocked was called with during a crawl
RECURSIVE MarksOf(_, _)
MarksOf(trace, marked) ==
    IF trace = <<>> THEN marked
    ELSE MarksOf(Tail(trace),
                 IF BlocksProxy(Head(trace).resp)
                 THEN DictSet(marked, Head(trace).proxy, Head(trace).at)
                 ELSE marked)

ErrAfter(trace, err) ==
    IF trace = <<>> THEN err
    ELSE LET last == trace[Len(trace)]
         IN  IF BlocksProxy(last.resp) THEN [proxy |-> last.proxy, at |-> last.at]
             ELSE NoErr

\* the ProxyManager, the clock and the record after worker w ran crawl as `run`
Crawls(w, run) ==
    /\ blocked_ips' = run.blocked
    /\ ip_last_used' = run.last_used
    /\ now' = run.time
    /\ UNCHANGED <<proxy_list, ticks, life>>

Observed(w, run, sent) ==
    [obs EXCEPT !.marked = MarksOf(run.trace, @),
                !.err[w] = ErrAfter(run.trace, @),
                !.run[w] = Ran(run),
                !.sent[w] = sent]

(***************************************************************************)
(* The clock.  It moves to the next moment at which something can change:  *)
(* one second on, the end of a cool-down, the second before the end of a   *)
(* block and the end of a block, the last second of an author's interval   *)
(* and the author falling due, the last second a node counts as alive and  *)
(* the node falling silent.                                                *)
(***************************************************************************)
TickTargets ==
    {now + 1}
    \cup {ip_last_used[k] + MIN_REQUEST_INTERVAL : k \in DOMAIN ip_last_used}
    \cup {blocked_ips[k] + IP_BLOCK_DURATION - 1 : k \in DOMAIN blocked_ips}
    \cup {blocked_ips[k] + IP_BLOCK_DURATION : k \in DOMAIN blocked_ips}
    \cup {last_crawl[a] + GOOGLE_SCHOLAR_INTERVAL + d :
              a \in {x \in Authors : last_crawl[x] # NoTime}, d \in {0, 1}}
    \cup {active_nodes[n] + 2 * HEARTBEAT_INTERVAL + d :
              n \in DOMAIN active_nodes, d \in {0, 1}}

Tick ==
    /\ ticks < MaxTicks
    /\ \E t \in {x \in TickTargets : x > now} : now' = t
    /\ ticks' = ticks + 1
    /\ UNCHANGED <<pmVars, wk, obs, life, sysVars>>

(***************************************************************************)
(* CrawlSpec: the worker threads crawl again and again against the shared  *)
(* ProxyManager.                                                            *)
(***************************************************************************)
CCrawl(w) ==
    /\ wk[w].pc = "idle"
    /\ obs.crawls < MaxCrawls
    /\ \E s \in Sources : \E run \in Crawl(s) :
          /\ Crawls(w, run)
          /\ obs' = [Observed(w, run, <<>>) EXCEPT !.crawls = @ + 1]
    /\ wk' = [wk EXCEPT ![w].pc = "crawled"]
    /\ UNCHANGED sysVars

CDone(w) ==
    /\ wk[w].pc = "crawled"
    /\ wk' = [wk EXCEPT ![w].pc = "idle"]
    /\ obs' = [obs EXCEPT !.run[w] = NoRun]
    /\ UNCHANGED <<pmVars, now, ticks, life, sysVars>>

IdleCoordinator ==
    [pc |-> "idle",
     failed |-> FALSE,        \* process_result caught an exception
     held |-> <<>>]           \* deliveries left unsettled on its channel

SysIdle ==
    /\ queue = <<>>
    /\ inflight = [u \in Units |-> NoMsg]
    /\ co = IdleCoordinator
    /\ active_nodes = EmptyDict
    /\ last_crawl = [a \in Authors |-> NoTime]
    /\ publications = {}

\* main.py, line 63-75: the threads run, connected to a reachable broker
Started ==
    [broker |-> "up",                           \* the queue broker: up or down
     outages |-> 0,                             \* how often it went down
     shutdown |-> FALSE,                        \* shutdown_flag
     main |-> "wait",                           \* main: wait, join, done
     joined |-> 0,                              \* threads main has joined
     conn |-> [u \in Units |-> TRUE],           \* the unit's channel works
     thread |-> [u \in Units |-> "run"],        \* run, cleanup, stopped
     errors |-> [u \in Units |-> 0]]            \* iterations that failed

PmInit ==
    /\ life = Started
    /\ proxy_list \in ProxyLists
    /\ blocked_ips = EmptyDict
    /\ ip_last_used = EmptyDict
    /\ now = 0
    /\ ticks = 0

CrawlInit ==
    /\ PmInit
    /\ wk = [w \in Workers |-> IdleWorker]
    /\ obs = FreshObs
    /\ SysIdle

CrawlNext ==
    \/ \E w \in Workers : CCrawl(w)
    \/ \E w \in Workers : CDone(w)
    \/ Tick

CrawlSpec == CrawlInit /\ [][CrawlNext]_vars

(***************************************************************************)
(* RaceSpec: the worker threads of main.py call get_proxy on the one shared *)
(* ProxyManager, which holds no lock.  get_proxy is taken statement by     *)
(* statement (the line numbers are those of proxy_manager.py); a thread    *)
(* that got a handle may mark it blocked and releases it.                  *)
(***************************************************************************)
\* the scan moves on to the next proxy, or get_proxy returns None (line 98)
NextProxy(t) ==
    IF wk[t].i + 1 > Len(proxy_list)
    THEN [wk[t] EXCEPT !.pc = "idle", !.i = 0, !.ct = 0]
    ELSE [wk[t] EXCEPT !.pc = "gp84", !.i = @ + 1]

\* a KeyError leaves get_proxy
KeyError(t) == [wk[t] EXCEPT !.pc = "idle", !.i = 0, !.ct = 0]

ScanIp(t) == TrackedIp(proxy_list[wk[t].i])

\* line 77-79
RCall(t) ==
    /\ wk[t].pc = "idle"
    /\ obs.crawls < MaxCalls
    /\ obs' = [obs EXCEPT !.crawls = @ + 1]
    /\ wk' = [wk EXCEPT ![t].pc = "gp84", ![t].i = 1, ![t].ct = now]
    /\ UNCHANGED <<pmVars, now, ticks, life, sysVars>>

\* line 84
R84(t) ==
    /\ wk[t].pc = "gp84"
    /\ wk' = [wk EXCEPT ![t].pc = IF ScanIp(t) \in DOMAIN blocked_ips
                                  THEN "gp85" ELSE "gp90"]
    /\ UNCHANGED <<pmVars, now, ticks, life, obs, sysVars>>

\* line 85-86
R85(t) ==
    /\ wk[t].pc = "gp85"
    /\ wk' = [wk EXCEPT ![t] =
                IF ScanIp(t) \notin DOMAIN blocked_ips THEN KeyError(t)
                ELSE IF wk[t].ct - blocked_ips[ScanIp(t)] < IP_BLOCK_DURATION
                     THEN NextProxy(t)
                     ELSE [wk[t] EXCEPT !.pc = "gp87"]]
    /\ UNCHANGED <<pmVars, now, ticks, life, obs, sysVars>>

\* line 87
R87(t) ==
    /\ wk[t].pc = "gp87"
    /\ IF ScanIp(t) \in DOMAIN blocked_ips
       THEN /\ blocked_ips' = DictDel(blocked_ips, ScanIp(t))
            /\ wk' = [wk EXCEPT ![t].pc = "gp90"]
       ELSE /\ blocked_ips' = blocked_ips
            /\ wk' = [wk EXCEPT ![t] = KeyError(t)]
    /\ UNCHANGED <<proxy_list, ip_last_used, now, ticks, life, obs, sysVars>>

\* line 90
R90(t) ==
    /\ wk[t].pc = "gp90"
    /\ wk' = [wk EXCEPT ![t].pc = IF ScanIp(t) \in DOMAIN ip_last_used
                                  THEN "gp91" ELSE "gp94"]
    /\ UNCHANGED <<pmVars, now, ticks, life, obs, sysVars>>

\* line 91-92
R91(t) ==
    /\ wk[t].pc = "gp91"
    /\ wk' = [wk EXCEPT ![t] =
                IF ScanIp(t) \notin DOMAIN ip_last_used THEN KeyError(t)
                ELSE IF wk[t].ct - ip_last_used[ScanIp(t)] < MIN_REQUEST_INTERVAL
                     THEN NextProxy(t)
                     ELSE [wk[t] EXCEPT !.pc = "gp94"]]
    /\ UNCHANGED <<pmVars, now, ticks, life, obs, sysVars>>

\* line 94-96
R94(t) ==
    /\ wk[t].pc = "gp94"
    /\ ip_last_used' = DictSet(ip_last_used, ScanIp(t), wk[t].ct)
    /\ wk' = [wk EXCEPT ![t].pc = "holding",
                        ![t].proxy = FormatProxyUrl(proxy_list[wk[t].i])]
    /\ UNCHANGED <<proxy_list, blocked_ips, now, ticks, life, obs, sysVars>>

\* the holder calls mark_blocked with its handle
RMarkBlocked(t) ==
    /\ wk[t].pc = "holding"
    /\ blocked_ips' = MarkBlocked(blocked_ips, wk[t].proxy, now)
    /\ wk' = [wk EXCEPT ![t].pc = "marked"]
    /\ UNCHANGED <<proxy_list, ip_last_used, now, ticks, life, obs, sysVars>>

\* a release_proxy that also lifts the block of the IP it releases
RReleaseUnblocking(t) ==
    /\ wk[t].pc \in {"holding", "marked"}
    /\ ip_last_used' = ReleaseProxy(ip_last_used, wk[t].proxy)
    /\ blocked_ips' = IF HandleHost(wk[t].proxy) \in DOMAIN blocked_ips
                      THEN DictDel(blocked_ips, HandleHost(wk[t].proxy))
                      ELSE blocked_ips
    /\ wk' = [wk EXCEPT ![t] = IdleWorker]
    /\ UNCHANGED <<proxy_list, now, ticks, life, obs, sysVars>>

\* the holder calls release_proxy with its handle
RRelease(t) ==
    /\ wk[t].pc \in {"holding", "marked"}
    /\ ip_last_used' = ReleaseProxy(ip_last_used, wk[t].proxy)
    /\ wk' = [wk EXCEPT ![t] = IdleWorker]
    /\ UNCHANGED <<proxy_list, blocked_ips, now, ticks, life, obs, sysVars>>

RaceInit == CrawlInit

RaceNext ==
    \/ \E t \in Workers : RCall(t)
    \/ \E t \in Workers : R84(t)
    \/ \E t \in Workers : R85(t)
    \/ \E t \in Workers : R87(t)
    \/ \E t \in Workers : R90(t)
    \/ \E t \in Workers : R91(t)
    \/ \E t \in Workers : R94(t)
    \/ \E t \in Workers : RMarkBlocked(t)
    \/ \E t \in Workers : RRelease(t)
    \/ Tick

RaceSpec == RaceInit /\ [][RaceNext]_vars

Holds(t) == wk[t].pc \in {"holding", "marked"}

\* the IP of the proxy that a handle returned by get_proxy stands for
HandleIp(h) ==
    LET i == CHOOSE j \in 1..Len(proxy_list) : FormatProxyUrl(proxy_list[j]) = h
    IN  proxy_list[i].host

\* C2: two get_proxy calls of different threads made less than
\* MIN_REQUEST_INTERVAL apart, with no release in between, never both return
\* a proxy with the same IP.
C2_NoDoubleGrant ==
    \A t1, t2 \in Workers :
        (/\ t1 # t2
         /\ Holds(t1) /\ Holds(t2)
         /\ wk[t1].ct - wk[t2].ct < MIN_REQUEST_INTERVAL
         /\ wk[t2].ct - wk[t1].ct < MIN_REQUEST_INTERVAL)
            => HandleIp(wk[t1].proxy) # HandleIp(wk[t2].proxy)

(***************************************************************************)
(* Messages.  A JSON object is a record; the code tells the kinds of        *)
(* message apart by the keys present.  The created_at of a Task and the     *)
(* timestamp of a Heartbeat are never read and are left out.                *)
(***************************************************************************)
None == "None"
Get(d, k, default) == IF k \in DOMAIN d THEN d[k] ELSE default
Truthy(d, k) == k \in DOMAIN d /\ d[k] = TRUE

\* the authors table (example_usage.py): author_id -> row without last_crawl
AuthorRow(a) ==
    [author_id |-> a,
     author_name |-> IF a = 1 THEN "author1" ELSE "author2",
     source |-> IF a % 2 = 1 THEN "google" ELSE "dblp",
     url |-> IF a = 1 THEN "url1" ELSE "url2"]

\* generate_tasks carrying a retry count of 1 into a new task
NewTaskRetried(author) ==
    [author_id |-> author.author_id, url |-> author.url, author |-> author.author_name,
     source |-> author.source, status |-> "pending", retry_count |-> 1]

\* generate_tasks, line 157-165
NewTask(author) ==
    [author_id |-> author.author_id, url |-> author.url, author |-> author.author_name,
     source |-> author.source, status |-> "pending", retry_count |-> 0]

\* send_heartbeat, line 209-213
Heartbeat(node) == [heartbeat |-> TRUE, node_id |-> node]

\* process_task, line 246-263: the Result for what crawl did
ResultOf(out, task, node) ==
    IF out.kind = "return"
    THEN [status |-> "success", task_data |-> task, publications |-> out.pubs,
          node_id |-> node]
    ELSE [status |-> "error", task_data |-> task,
          error |-> IF out.kind = "raise" THEN out.msg
                    ELSE "object of type 'NoneType' has no len()",
          node_id |-> node]

\* the check of line 236 without its test for url
WellFormedWithoutUrl(m) == "author" \in DOMAIN m /\ "source" \in DOMAIN m

\* process_task, line 236: the check for a malformed task
WellFormedTask(m) == "url" \in DOMAIN m /\ "author" \in DOMAIN m /\ "source" \in DOMAIN m

\* a message another program put on the queue: a Task without url
MalformedTask ==
    [author_id |-> 1, author |-> "author1", source |-> "google",
     status |-> "pending", retry_count |-> 0]

\* a body that is not JSON: text such as b'not json', for which json.loads
\* raises JSONDecodeError, or bytes such as b'\x80abc' that are not UTF-8,
\* for which bytes.decode and json.loads raise UnicodeDecodeError
Undecodable(kind) == [raw |-> kind]
IsRaw(m) == "raw" \in DOMAIN m

\* a body that is JSON but not an object: null (also an array or a scalar)
NonObject(kind) == [json |-> kind]
IsNonObject(m) == "json" \in DOMAIN m

ForeignMessages ==
    {MalformedTask, Undecodable("text"), Undecodable("bytes"), NonObject("null")}

(***************************************************************************)
(* The broker: one durable FIFO queue; basic_get hands the head to the      *)
(* caller, which holds it until it acknowledges.                            *)
(***************************************************************************)
CanPublish(n) == n = 0 \/ Len(queue) + n <= obs.backlog + MaxQueue

EnvPublish(m) ==
    /\ obs.foreign < MaxForeign
    /\ CanPublish(1)
    /\ queue' = Append(queue, m)
    /\ obs' = [obs EXCEPT !.foreign = @ + 1]
    /\ UNCHANGED <<pmVars, now, ticks, life, wk, inflight, co, active_nodes, dbVars>>

(***************************************************************************)
(* Worker (crawler.py): run_once.                                          *)
(***************************************************************************)
\* line 284: send_heartbeat
WHeartbeat(w) ==
    /\ wk[w].pc = "idle"
    /\ CanPublish(1)
    /\ queue' = Append(queue, Heartbeat(w))
    /\ wk' = [wk EXCEPT ![w].pc = "get"]
    /\ UNCHANGED <<pmVars, now, ticks, life, obs, inflight, co, active_nodes, dbVars>>

\* line 286-287, 300: basic_get
WGet(w) ==
    /\ wk[w].pc = "get"
    /\ IF queue = <<>>
       THEN /\ wk' = [wk EXCEPT ![w].pc = "idle"]
            /\ UNCHANGED <<queue, inflight, obs>>
       ELSE /\ inflight' = [inflight EXCEPT ![w] = Head(queue)]
            /\ queue' = Tail(queue)
            /\ wk' = [wk EXCEPT ![w].pc = "process"]
            /\ obs' = obs
    /\ UNCHANGED <<pmVars, now, ticks, life, co, active_nodes, dbVars>>

\* process_task, line 231-238: a heartbeat or a malformed task is skipped
Skipped(task) == Truthy(task, "heartbeat") \/ ~WellFormedTask(task)

\* process_task building a Result on the success path alone
PublishedOnSuccess(out, task, node) ==
    IF out.kind = "return" THEN <<ResultOf(out, task, node)>> ELSE <<>>

\* process_task, line 240-278: what it publishes once crawl is over
Published(out, task, node) == <<ResultOf(out, task, node)>>

\* run_once, line 288-296 and 309-310, for a body that is not JSON
WReject(w) ==
    /\ wk[w].pc = "process"
    /\ IsRaw(inflight[w])
    /\ inflight' = [inflight EXCEPT ![w] = NoMsg]
    /\ wk' = [wk EXCEPT ![w].pc = "idle",
                        ![w].held =
                            \* line 294-296: JSONDecodeError, basic_nack(requeue=False)
                            IF inflight[w].raw = "text" THEN @
                            \* line 288: body.decode() raises outside the inner
                            \* try; line 309 logs; neither ack nor nack
                            ELSE Append(@, inflight[w])]
    /\ UNCHANGED <<pmVars, now, ticks, life, obs, queue, co, active_nodes, dbVars>>

\* run_once, line 290-291 and 297-299, for JSON that is not an object:
\* task.get raises AttributeError in the log call of line 291, before
\* process_task; the handler of line 297 answers basic_nack(requeue=True) and
\* the broker puts the message back at the head of the queue
WRequeue(w) ==
    /\ wk[w].pc = "process"
    /\ IsNonObject(inflight[w])
    /\ queue' = <<inflight[w]>> \o queue
    /\ inflight' = [inflight EXCEPT ![w] = NoMsg]
    /\ wk' = [wk EXCEPT ![w].pc = "idle"]
    /\ UNCHANGED <<pmVars, now, ticks, life, obs, co, active_nodes, dbVars>>

\* process_task
WProcess(w) ==
    /\ wk[w].pc = "process"
    /\ ~IsRaw(inflight[w])
    /\ ~IsNonObject(inflight[w])
    /\ IF Skipped(inflight[w])
       THEN UNCHANGED <<pmVars, now, ticks, life, obs, queue>>
       ELSE \E run \in Crawl(inflight[w].source) :
              LET out == Published(run.outcome, inflight[w], w)
              IN  /\ CanPublish(Len(out))
                  /\ Crawls(w, run)
                  /\ queue' = queue \o out
                  /\ obs.crawls < MaxTasks
                  /\ obs' = [obs EXCEPT !.crawls = @ + 1, !.sent[w] = out,
                                         !.run[w] = Ran(run)]
    /\ wk' = [wk EXCEPT ![w].pc = "ack"]
    /\ UNCHANGED <<inflight, co, active_nodes, dbVars>>

\* line 293: basic_ack
WAck(w) ==
    /\ wk[w].pc = "ack"
    /\ inflight' = [inflight EXCEPT ![w] = NoMsg]
    /\ wk' = [wk EXCEPT ![w].pc = "idle"]
    /\ obs' = [obs EXCEPT !.sent[w] = <<>>, !.run[w] = NoRun]
    /\ UNCHANGED <<pmVars, now, ticks, life, queue, co, active_nodes, dbVars>>

(***************************************************************************)
(* RecordStore (db_manager.py).                                            *)
(***************************************************************************)
\* the WHERE clause with <= in the place of <
DueInclusive(a) ==
    \/ last_crawl[a] = NoTime
    \/ AuthorRow(a).source = "google" /\ last_crawl[a] <= now - GOOGLE_SCHOLAR_INTERVAL
    \/ AuthorRow(a).source = "dblp" /\ last_crawl[a] <= now - DBLP_INTERVAL

\* get_authors_for_crawling, line 72-74
Due(a) ==
    \/ last_crawl[a] = NoTime
    \/ AuthorRow(a).source = "google" /\ last_crawl[a] < now - GOOGLE_SCHOLAR_INTERVAL
    \/ AuthorRow(a).source = "dblp" /\ last_crawl[a] < now - DBLP_INTERVAL

\* an update_last_crawl that writes nothing
KeepLastCrawl(lc, author_id) == lc

\* UPDATE authors SET last_crawl = NOW() without the WHERE clause
UpdateAllLastCrawl(lc, author_id) == [a \in DOMAIN lc |-> now]

\* update_last_crawl: UPDATE authors SET last_crawl = NOW() WHERE author_id = ...
UpdateLastCrawl(lc, author_id) ==
    IF author_id \in DOMAIN lc THEN [lc EXCEPT ![author_id] = now] ELSE lc

\* the row update_publications builds for a publication, line 112-118
PubRow(author_id, pub) ==
    [author_id |-> author_id, title |-> pub.title, year |-> pub.year]

\* the conflict target of the INSERT: (author_id, title)
SameKey(r, row) == r.author_id = row.author_id /\ r.title = row.title

\* INSERT without the ON CONFLICT clause
InsertRow(tbl, row) == tbl \cup {row}

\* INSERT ... ON CONFLICT (author_id, title) DO UPDATE SET year =
\* EXCLUDED.year, line 123-128
UpsertRow(tbl, row) ==
    {IF SameKey(r, row) THEN [r EXCEPT !.year = row.year] ELSE r : r \in tbl}
        \cup (IF \E r \in tbl : SameKey(r, row) THEN {} ELSE {row})

\* update_publications, line 110-132: the rows are inserted in order
RECURSIVE Upsert(_, _, _)
Upsert(tbl, author_id, pubs) ==
    IF pubs = <<>> THEN tbl
    ELSE Upsert(UpsertRow(tbl, PubRow(author_id, Head(pubs))), author_id, Tail(pubs))

(***************************************************************************)
(* Coordinator (coordinator.py).                                           *)
(***************************************************************************)
\* check_node_health removing a node once its age reaches the limit
CheckNodeHealthEarly(nodes) ==
    [n \in {x \in DOMAIN nodes : ~(now - nodes[x] >= HEARTBEAT_INTERVAL * 2)} |-> nodes[n]]

\* check_node_health
CheckNodeHealth(nodes) ==
    [n \in {x \in DOMAIN nodes : ~(now - nodes[x] > HEARTBEAT_INTERVAL * 2)} |-> nodes[n]]

\* generate_tasks: the tasks, in the order of the authors
RECURSIVE TasksFrom(_)
TasksFrom(a) ==
    IF a > NumAuthors THEN <<>>
    ELSE (IF Due(a) THEN <<NewTask(AuthorRow(a))>> ELSE <<>>) \o TasksFrom(a + 1)

\* generate_tasks without the test of the queue length
GenerateTasksUnthrottled == TasksFrom(1)

\* generate_tasks, line 148-174
GenerateTasks == IF Len(queue) < QUEUE_HIGH_WATER THEN TasksFrom(1) ELSE <<>>

\* handle_error with the test `retry_count <= MAX_RETRIES`
ShouldRetryInclusive(retry_count) == retry_count <= MAX_RETRIES

\* handle_error, line 115
ShouldRetry(retry_count) == retry_count < MAX_RETRIES

\* handle_error, line 116-117
RetryTask(task_data) ==
    [task_data EXCEPT !.retry_count = Get(task_data, "retry_count", 0) + 1,
                      !.status = "pending"]

\* handle_error: what it publishes
HandleError(task_data) ==
    IF "url" \notin DOMAIN task_data THEN <<>>
    ELSE IF ShouldRetry(Get(task_data, "retry_count", 0))
         THEN <<RetryTask(task_data)>>
         ELSE <<>>

\* run_once, line 187-191: health check, then the new tasks are published
GenerateStep ==
    /\ co.pc = "idle"
    /\ CanPublish(Len(GenerateTasks))
    /\ active_nodes' = CheckNodeHealth(active_nodes)
    /\ queue' = queue \o GenerateTasks
    /\ last_crawl' = [a \in Authors |->
                        IF GenerateTasks # <<>> /\ Due(a) THEN now ELSE last_crawl[a]]
    /\ co' = [co EXCEPT !.pc = "get"]
    /\ UNCHANGED <<pmVars, now, ticks, life, wk, inflight, publications>>

CoordGenerate == GenerateStep /\ UNCHANGED obs

\* run_once, line 195-200: basic_get
CoordGet ==
    /\ co.pc = "get"
    /\ IF queue = <<>>
       THEN /\ co' = [co EXCEPT !.pc = "idle"]
            /\ UNCHANGED <<queue, inflight>>
       ELSE /\ inflight' = [inflight EXCEPT ![CoordinatorUnit] = Head(queue)]
            /\ queue' = Tail(queue)
            /\ co' = [co EXCEPT !.pc = "process"]
    /\ UNCHANGED <<pmVars, now, ticks, life, wk, obs, active_nodes, dbVars>>

\* a liveness map rebuilt from the Heartbeat alone
RecordHeartbeatAlone(nodes, data) ==
    IF "node_id" \in DOMAIN data THEN DictSet(EmptyDict, data.node_id, now) ELSE EmptyDict

\* process_result, line 69-72: the Heartbeat's node is alive now
RecordHeartbeat(nodes, data) ==
    IF "node_id" \in DOMAIN data THEN DictSet(nodes, data.node_id, now) ELSE nodes

\* what the RecordStore does with the calls of one process_result: it
\* answers, update_last_crawl raises, or the INSERT of update_publications
\* raises (update_last_crawl has then committed on its own connection)
DbOutcomes == {"ok", "fail_update", "fail_insert"}

\* run_once, line 202 and 206-208, 212-213, for a body that is not JSON
CoordReject ==
    /\ co.pc = "process"
    /\ IsRaw(inflight[CoordinatorUnit])
    /\ inflight' = [inflight EXCEPT ![CoordinatorUnit] = NoMsg]
    /\ co' = [co EXCEPT !.pc = "idle",
                        !.held =
                            \* line 206-208: JSONDecodeError, basic_nack(requeue=False)
                            IF inflight[CoordinatorUnit].raw = "text" THEN @
                            \* json.loads raises UnicodeDecodeError, which is not
                            \* a JSONDecodeError; line 212 logs; neither ack nor nack
                            ELSE Append(@, inflight[CoordinatorUnit])]
    /\ UNCHANGED <<pmVars, now, ticks, life, wk, obs, queue, active_nodes, dbVars>>

\* process_result, with the RecordStore behaving as db
ProcessResult(db) ==
    /\ co.pc = "process"
    /\ ~IsRaw(inflight[CoordinatorUnit])
    /\ LET data      == inflight[CoordinatorUnit]
           status    == Get(data, "status", None)
           task_data == Get(data, "task_data", EmptyDict)
           has_author == "author_id" \in DOMAIN task_data
           pubs      == Get(data, "publications", <<>>)
       IN  CASE Truthy(data, "heartbeat") ->
                  /\ db = "ok"
                  /\ active_nodes' = RecordHeartbeat(active_nodes, data)
                  /\ UNCHANGED <<queue, dbVars>>
             [] ~Truthy(data, "heartbeat") /\ status = "success"
                    /\ "url" \in DOMAIN task_data /\ has_author ->
                  \* update_publications: update_last_crawl, then the upsert
                  /\ db = "fail_insert" => pubs # <<>>
                  /\ last_crawl' = IF db = "fail_update" THEN last_crawl
                                   ELSE UpdateLastCrawl(last_crawl, task_data.author_id)
                  /\ publications' = IF db = "ok"
                                     THEN Upsert(publications, task_data.author_id, pubs)
                                     ELSE publications
                  /\ UNCHANGED <<queue, active_nodes>>
             [] ~Truthy(data, "heartbeat") /\ status = "error" ->
                  /\ db = "fail_insert" => FALSE
                  /\ db = "fail_update" => has_author
                  /\ CanPublish(Len(HandleError(task_data)))
                  /\ queue' = queue \o HandleError(task_data)
                  /\ last_crawl' = IF has_author /\ db = "ok"
                                   THEN UpdateLastCrawl(last_crawl, task_data.author_id)
                                   ELSE last_crawl
                  /\ UNCHANGED <<active_nodes, publications>>
             [] OTHER -> db = "ok" /\ UNCHANGED <<queue, active_nodes, dbVars>>
    \* an exception of the RecordStore is caught and logged at line 103
    /\ co' = [co EXCEPT !.pc = "ack", !.failed = (db # "ok")]
    /\ UNCHANGED <<pmVars, now, ticks, life, wk, inflight>>

\* process_result with the RecordStore answering
CoordProcess == ProcessResult("ok") /\ UNCHANGED obs

\* run_once, line 204: basic_ack
CoordAck ==
    /\ co.pc = "ack"
    /\ inflight' = [inflight EXCEPT ![CoordinatorUnit] = NoMsg]
    /\ co' = [co EXCEPT !.pc = "idle", !.failed = FALSE]
    /\ UNCHANGED <<pmVars, now, ticks, life, wk, obs, queue, active_nodes, dbVars>>

(***************************************************************************)
(* Spec: main.py, one Coordinator thread and the worker threads, each      *)
(* running run_once again and again.  The broker is reachable and the      *)
(* RecordStore answers.  The clock moves with the sleeps of crawl only:    *)
(* the one-second sleep between two iterations is left out.                *)
(***************************************************************************)
Init ==
    /\ CrawlInit
    /\ proxy_list = <<PlainProxy, AuthProxy>>

\* the worker threads that main.py starts
Crawlers == 1..NumCrawlers

Next ==
    \/ CoordGenerate
    \/ CoordGet
    \/ CoordProcess
    \/ CoordReject
    \/ CoordAck
    \/ \E w \in Crawlers : WHeartbeat(w)
    \/ \E w \in Crawlers : WGet(w)
    \/ \E w \in Crawlers : WProcess(w)
    \/ \E w \in Crawlers : WReject(w)
    \/ \E w \in Crawlers : WRequeue(w)
    \/ \E w \in Crawlers : WAck(w)
    \/ \E m \in ForeignMessages : EnvPublish(m)

Spec == Init /\ [][Next]_vars

(***************************************************************************)
(* RedeliverSpec: the system with one author due and a Worker whose        *)
(* connection may break when it acknowledges.  The broker then puts the      *)
(* unacknowledged delivery back at the head of the queue.                  *)
(***************************************************************************)
\* run_once, line 293 and 297-308: basic_ack raises on a broken connection,
\* the basic_nack of the handler raises as well, and the handler of line 304
\* sets the connection up again; the Task is delivered once more
WAckFail(w) ==
    /\ wk[w].pc = "ack"
    /\ life.errors[w] < MaxRedeliveries
    /\ life' = [life EXCEPT !.errors[w] = @ + 1]
    /\ queue' = <<inflight[w]>> \o queue
    /\ inflight' = [inflight EXCEPT ![w] = NoMsg]
    /\ wk' = [wk EXCEPT ![w].pc = "idle"]
    /\ obs' = [obs EXCEPT !.sent[w] = <<>>, !.run[w] = NoRun]
    /\ UNCHANGED <<pmVars, now, ticks, co, active_nodes, dbVars>>

RedeliverInit ==
    /\ PmInit
    /\ proxy_list = <<AuthProxy>>
    /\ wk = [w \in Workers |-> IdleWorker]
    /\ queue = <<Heartbeat(1)>>
    /\ obs = [FreshObs EXCEPT !.backlog = 1]
    /\ inflight = [u \in Units |-> NoMsg]
    /\ co = IdleCoordinator
    /\ active_nodes = EmptyDict
    /\ last_crawl = [a \in Authors |-> IF a = 1 THEN NoTime ELSE 0]
    /\ publications = {}

RedeliverNext ==
    \/ CoordGenerate
    \/ CoordGet
    \/ CoordProcess
    \/ CoordAck
    \/ \E w \in Crawlers : WHeartbeat(w)
    \/ \E w \in Crawlers : WGet(w)
    \/ \E w \in Crawlers : WProcess(w)
    \/ \E w \in Crawlers : WAck(w)
    \/ \E w \in Crawlers : WAckFail(w)

RedeliverSpec == RedeliverInit /\ [][RedeliverNext]_vars

(***************************************************************************)
(* CoordSpec: the Coordinator's run_once, again and again, on a queue that *)
(* holds a backlog at the start and to which Workers deliver Heartbeats    *)
(* and Results, some of them malformed; the RecordStore may fail.          *)
(***************************************************************************)
\* queue depths at the start, around the test of generate_tasks, line 153
Depths ==
    {0, QUEUE_HIGH_WATER - 1, QUEUE_HIGH_WATER, QUEUE_HIGH_WATER + 1,
     QUEUE_HIGH_WATER + 100}

\* a queue of n Heartbeats
Backlog(n) == [k \in 1..n |-> Heartbeat(1)]

\* a Task as a Worker may have received it
TaskOf(a, retry_count) == [NewTask(AuthorRow(a)) EXCEPT !.retry_count = retry_count]

\* task_data without url, and task_data without source
WithoutUrl == MalformedTask
WithoutSource ==
    [author_id |-> 1, url |-> "url1", author |-> "author1",
     status |-> "pending", retry_count |-> 0]

\* what Workers deliver
DeliveredHeartbeats == {Heartbeat(1), Heartbeat(2), [heartbeat |-> TRUE]}

DeliveredSuccesses ==
    {ResultOf(Returns(p), TaskOf(1, 0), 1) :
        p \in {<<>>, <<Publication("google")>>, <<Republished("google")>>}}
    \cup {ResultOf(Returns(<<Publication("dblp")>>), TaskOf(2, 0), 2)}

DeliveredErrors ==
    {ResultOf(Raises(ERROR_RATE_LIMIT), TaskOf(1, k), 1) : k \in {0, MAX_RETRIES}}

DeliveredMalformed ==
    {ResultOf(Returns(<<Publication("google")>>), WithoutUrl, 1),
     ResultOf(Returns(<<Publication("google")>>), WithoutSource, 1),
     ResultOf(Raises(ERROR_RATE_LIMIT), WithoutUrl, 1),
     ResultOf(Raises(ERROR_RATE_LIMIT), WithoutSource, 1)}

DeliveredMessages ==
    DeliveredHeartbeats \cup DeliveredSuccesses \cup DeliveredErrors
        \cup DeliveredMalformed \cup {Undecodable("text"), Undecodable("bytes")}

EnvDeliver(m) ==
    /\ obs.foreign < MaxDeliveries
    /\ Len(queue) < MaxQueue
    /\ queue' = Append(queue, m)
    /\ obs' = [obs EXCEPT !.foreign = @ + 1]
    /\ UNCHANGED <<pmVars, now, ticks, life, wk, inflight, co, active_nodes, dbVars>>

\* run_once begins (main.py, line 33-34)
CRound ==
    /\ obs.crawls < MaxRounds
    /\ GenerateStep
    /\ obs' = [obs EXCEPT !.crawls = @ + 1]

CProcess ==
    /\ \E db \in DbOutcomes : ProcessResult(db)
    /\ obs' = [obs EXCEPT !.handled =
                  Append(@, [msg |-> inflight[CoordinatorUnit], failed |-> co'.failed])]

CoordInit ==
    /\ PmInit
    /\ proxy_list = <<PlainProxy, AuthProxy>>
    /\ wk = [w \in Workers |-> IdleWorker]
    /\ \E d \in Depths :
          /\ queue = Backlog(d)
          /\ obs = [FreshObs EXCEPT !.backlog = d]
    /\ inflight = [u \in Units |-> NoMsg]
    /\ co = IdleCoordinator
    /\ active_nodes = EmptyDict
    /\ last_crawl \in [Authors -> {NoTime, 0}]
    /\ publications = {}

CoordNext ==
    \/ CRound
    \/ CoordGet
    \/ CProcess
    \/ CoordReject
    \/ CoordAck
    \/ \E m \in DeliveredMessages : EnvDeliver(m)
    \/ Tick

CoordSpec == CoordInit /\ [][CoordNext]_vars

(***************************************************************************)
(* GenSpec: generate_tasks over a table of MaxScan authors, statement by   *)
(* statement, with a RecordStore whose f-th update_last_crawl of the call  *)
(* raises (f = 0: none does).                                              *)
(***************************************************************************)
ScanAuthors == 1..MaxScan

\* get_authors_for_crawling: the due authors, in the order of the table
RECURSIVE DueFrom(_)
DueFrom(a) ==
    IF a > MaxScan THEN <<>>
    ELSE (IF Due(a) THEN <<a>> ELSE <<>>) \o DueFrom(a + 1)

\* line 171-172: the inner loop from position j on; c calls of
\* update_last_crawl were made before, the f-th raises
RECURSIVE MarkAll(_, _, _, _, _)
MarkAll(authors, j, lc, c, f) ==
    IF j > Len(authors) THEN [lc |-> lc, calls |-> c, failed |-> FALSE]
    ELSE IF c + 1 = f THEN [lc |-> lc, calls |-> c + 1, failed |-> TRUE]
    ELSE MarkAll(authors, j + 1, UpdateLastCrawl(lc, authors[j]), c + 1, f)

\* line 156-172: the outer loop from position i on; an exception of the
\* inner loop leaves both loops for the handler of line 179, and line 181
\* returns the tasks built so far
RECURSIVE GenerateFrom(_, _, _, _, _, _)
GenerateFrom(authors, i, tasks, lc, c, f) ==
    IF i > Len(authors) THEN [tasks |-> tasks, lc |-> lc]
    ELSE LET appended == Append(tasks, NewTask(AuthorRow(authors[i])))
             marked   == MarkAll(authors, 1, lc, c, f)
         IN  IF marked.failed THEN [tasks |-> appended, lc |-> marked.lc]
             ELSE GenerateFrom(authors, i + 1, appended, marked.lc, marked.calls, f)

\* generate_tasks, line 140-181
GenerateTasksFailing(f) ==
    IF Len(queue) < QUEUE_HIGH_WATER
    THEN GenerateFrom(DueFrom(1), 1, <<>>, last_crawl, 0, f)
    ELSE [tasks |-> <<>>, lc |-> last_crawl]

\* run_once, line 187-191, the f-th update_last_crawl raising
GScan(f) ==
    /\ co.pc = "idle"
    /\ obs.crawls < MaxRounds
    /\ active_nodes' = CheckNodeHealth(active_nodes)
    /\ queue' = queue \o GenerateTasksFailing(f).tasks
    /\ last_crawl' = GenerateTasksFailing(f).lc
    /\ co' = [co EXCEPT !.pc = "get"]
    /\ obs' = [obs EXCEPT !.crawls = @ + 1]
    /\ UNCHANGED <<pmVars, now, ticks, life, wk, inflight, publications>>

\* the Workers take the tasks off the queue; the loop comes round
GTaken ==
    /\ co.pc = "get"
    /\ queue' = <<>>
    /\ co' = [co EXCEPT !.pc = "idle"]
    /\ UNCHANGED <<pmVars, now, ticks, life, wk, obs, inflight, active_nodes, dbVars>>

GenInit ==
    /\ PmInit
    /\ proxy_list = <<PlainProxy, AuthProxy>>
    /\ wk = [w \in Workers |-> IdleWorker]
    /\ obs = FreshObs
    /\ queue = <<>>
    /\ inflight = [u \in Units |-> NoMsg]
    /\ co = IdleCoordinator
    /\ active_nodes = EmptyDict
    /\ last_crawl \in [ScanAuthors -> {NoTime, 0}]
    /\ publications = {}

GenNext ==
    \/ \E f \in 0..(MaxScan * MaxScan) : GScan(f)
    \/ GTaken
    \/ Tick

GenSpec == GenInit /\ [][GenNext]_vars

(***************************************************************************)
(* LifeSpec: main.py.  The Coordinator thread and the worker threads loop  *)
(* until the shutdown flag is set; the broker may go down and come back;   *)
(* main joins the threads and exits, which ends the daemon threads.  No    *)
(* author is due, so the queue carries Heartbeats only.  The broker goes   *)
(* down while the units sleep between two iterations.  The loop test is    *)
(* taken together with the first step of run_once: setting the flag        *)
(* between the two is the same as setting it right after that step.        *)
(***************************************************************************)
LifeUnits == {CoordinatorUnit} \cup Crawlers

PcOf(u) == IF u = CoordinatorUnit THEN co.pc ELSE wk[u].pc

\* a loop that never tests the flag
RunsForever == TRUE

\* main.py, line 33 and 46: while not shutdown_flag.is_set()
KeepsRunning == ~life.shutdown

\* the thread of unit u is alive in its loop
InLoop(u) == life.main # "done" /\ life.thread[u] = "run"

\* the thread begins an iteration or goes on with the one it is in
MayStep(u) == InLoop(u) /\ (PcOf(u) = "idle" => KeepsRunning)

\* run_once of the Coordinator with a working channel
LCoord ==
    /\ MayStep(CoordinatorUnit)
    /\ life.conn[CoordinatorUnit]
    /\ CoordGenerate \/ CoordGet \/ CoordProcess \/ CoordAck

\* run_once of a Worker with a working channel
LWorker(w) ==
    /\ MayStep(w)
    /\ life.conn[w]
    /\ WHeartbeat(w) \/ WGet(w) \/ WProcess(w) \/ WAck(w)

\* run_once of the Coordinator without a working channel: check_node_health
\* runs, queue_declare raises inside generate_tasks (line 179 logs and no
\* task is generated), basic_get raises (line 209 or 212 logs).  Nothing
\* calls setup_rabbitmq again.
LCoordFail ==
    /\ MayStep(CoordinatorUnit)
    /\ ~life.conn[CoordinatorUnit]
    /\ life.errors[CoordinatorUnit] < MaxErrors
    /\ active_nodes' = CheckNodeHealth(active_nodes)
    /\ life' = [life EXCEPT !.errors[CoordinatorUnit] = @ + 1]
    /\ UNCHANGED <<pmVars, now, ticks, wk, obs, queue, inflight, co, dbVars>>

\* what reaches the handlers of Crawler.run_once when the channel is dead:
\* an AMQPConnectionError (line 304) or another exception (line 309)
ChannelErrors == {"AMQPConnectionError", "Exception"}

\* run_once of a Worker without a working channel
LWorkerFail(w, e) ==
    /\ MayStep(w)
    /\ ~life.conn[w]
    /\ life.errors[w] < MaxErrors
    /\ life' =
         IF e = "AMQPConnectionError"
         THEN \* line 307-308: sleep(5), setup_rabbitmq()
              IF life.broker = "up"
              THEN [life EXCEPT !.errors[w] = @ + 1, !.conn[w] = TRUE]
              \* setup_rabbitmq raises inside the handler: the exception
              \* leaves run_once and the loop (main.py, line 49-52)
              ELSE [life EXCEPT !.errors[w] = @ + 1, !.thread[w] = "cleanup"]
         \* line 309-310: logged
         ELSE [life EXCEPT !.errors[w] = @ + 1]
    /\ UNCHANGED <<pmVars, now, ticks, wk, obs, sysVars>>

\* main.py, line 33 and 46: the loop test fails; finally
LLeave(u) ==
    /\ InLoop(u)
    /\ PcOf(u) = "idle"
    /\ ~KeepsRunning
    /\ life' = [life EXCEPT !.thread[u] = "cleanup"]
    /\ UNCHANGED <<pmVars, now, ticks, wk, obs, sysVars>>

\* cleanup: the connection is closed; the thread ends
LCleanup(u) ==
    /\ life.main # "done"
    /\ life.thread[u] = "cleanup"
    /\ life' = [life EXCEPT !.thread[u] = "stopped", !.conn[u] = FALSE]
    /\ UNCHANGED <<pmVars, now, ticks, wk, obs, sysVars>>

\* the broker becomes unreachable: every connection is lost
BrokerDown ==
    /\ life.main # "done"
    /\ life.broker = "up"
    /\ life.outages < MaxOutages
    /\ \A u \in LifeUnits : PcOf(u) = "idle"
    /\ life' = [life EXCEPT !.broker = "down", !.outages = @ + 1,
                            !.conn = [u \in Units |-> FALSE]]
    /\ UNCHANGED <<pmVars, now, ticks, wk, obs, sysVars>>

BrokerUp ==
    /\ life.main # "done"
    /\ life.broker = "down"
    /\ life' = [life EXCEPT !.broker = "up"]
    /\ UNCHANGED <<pmVars, now, ticks, wk, obs, sysVars>>

\* signal_handler, main.py line 24-27
Signal ==
    /\ life.main = "wait"
    /\ ~life.shutdown
    /\ life' = [life EXCEPT !.shutdown = TRUE]
    /\ UNCHANGED <<pmVars, now, ticks, wk, obs, sysVars>>

\* main.py, line 80-86: main sees the flag and starts joining
MNotice ==
    /\ life.main = "wait"
    /\ life.shutdown
    /\ life' = [life EXCEPT !.main = "join"]
    /\ UNCHANGED <<pmVars, now, ticks, wk, obs, sysVars>>

\* the threads in the order main joins them
JoinOrder == [k \in 1..(1 + NumCrawlers) |-> k - 1]

\* thread.join(timeout=5) returns when the thread has ended or after 5 s
JoinReturns(u) == TRUE

\* main.py, line 89-93: the joins, then "Shutdown complete"
MJoin ==
    /\ life.main = "join"
    /\ JoinReturns(JoinOrder[life.joined + 1])
    /\ life' = [life EXCEPT !.joined = @ + 1,
                            !.main = IF life.joined + 1 = Len(JoinOrder)
                                     THEN "done" ELSE "join"]
    /\ UNCHANGED <<pmVars, now, ticks, wk, obs, sysVars>>

LifeInit ==
    /\ PmInit
    /\ proxy_list = <<PlainProxy, AuthProxy>>
    /\ wk = [w \in Workers |-> IdleWorker]
    /\ obs = FreshObs
    /\ queue = <<>>
    /\ inflight = [u \in Units |-> NoMsg]
    /\ co = IdleCoordinator
    /\ active_nodes = EmptyDict
    /\ last_crawl = [a \in Authors |-> 0]
    /\ publications = {}

LifeNext ==
    \/ LCoord
    \/ LCoordFail
    \/ \E w \in Crawlers : LWorker(w)
    \/ \E w \in Crawlers : \E e \in ChannelErrors : LWorkerFail(w, e)
    \/ \E u \in LifeUnits : LLeave(u)
    \/ \E u \in LifeUnits : LCleanup(u)
    \/ BrokerDown
    \/ BrokerUp
    \/ Signal
    \/ MNotice
    \/ MJoin

LifeSpec == LifeInit /\ [][LifeNext]_vars

(***************************************************************************)
(* Statements about the proxy pool and crawl, checked under CrawlSpec.     *)
(***************************************************************************)
\* worker w's step is a crawl; JustRan is its record in the new state
JustCrawled(w) == ~obs.run[w].ran /\ obs'.run[w].ran

\* C3: after mark_blocked was called at time t with the handle get_proxy
\* returned for a proxy, no get_proxy call made before t + IP_BLOCK_DURATION
\* returns that proxy, whichever of the two proxy formats it has.
C3_BlockedNotReturned ==
    [][\A w \in Workers : JustCrawled(w) =>
          \A k \in DOMAIN obs'.run[w].trace :
             LET a == obs'.run[w].trace[k]
             IN  a.proxy \in DOMAIN obs.marked
                    => a.at - obs.marked[a.proxy] >= IP_BLOCK_DURATION]_vars

HttpFailureMessages == {ERROR_RATE_LIMIT, ERROR_IP_BLOCKED, "Request failed"}

\* C9: when every request of a crawl fails (429, 403, another status, a
\* network error) and that failure is what crawl surfaces, crawl has made 3
\* attempts, each with a proxy acquired for it, and attempt k+1 began at
\* least k*2 seconds after attempt k.
C9_ThreeAttemptsBeforeFailure ==
    \A w \in Workers :
        LET run == obs.run[w] IN
        (/\ run.ran
         /\ run.outcome.kind = "raise"
         /\ run.outcome.msg \in HttpFailureMessages
         /\ \A k \in DOMAIN run.trace : run.trace[k].resp \in RequestErrors)
            => /\ Len(run.trace) = 3
               /\ \A k \in 1..2 : run.trace[k + 1].at - run.trace[k].at >= k * 2

\* C10: after a 429 or 403 through proxy P, the next proxy the same worker
\* obtains within IP_BLOCK_DURATION, for its retry or for its next task, is
\* not P.
C10_NextProxyDiffers ==
    [][\A w \in Workers : JustCrawled(w) =>
          LET trace == obs'.run[w].trace IN
          /\ (/\ trace # <<>>
              /\ obs.err[w] # NoErr
              /\ trace[1].at - obs.err[w].at < IP_BLOCK_DURATION)
                 => trace[1].proxy # obs.err[w].proxy
          /\ \A k \in DOMAIN trace :
                (/\ k + 1 \in DOMAIN trace
                 /\ BlocksProxy(trace[k].resp)
                 /\ trace[k + 1].at - trace[k].at < IP_BLOCK_DURATION)
                    => trace[k + 1].proxy # trace[k].proxy]_vars

\* the positions of the proxies get_proxy may return now: not blocked, or
\* blocked IP_BLOCK_DURATION ago or longer, and not used within the last
\* MIN_REQUEST_INTERVAL
Eligible ==
    {i \in 1..Len(proxy_list) :
        LET ip == proxy_list[i].host IN
        /\ ip \in DOMAIN blocked_ips => now - blocked_ips[ip] >= IP_BLOCK_DURATION
        /\ ip \in DOMAIN ip_last_used => now - ip_last_used[ip] >= MIN_REQUEST_INTERVAL}

FirstEligible == CHOOSE i \in Eligible : \A j \in Eligible : i <= j

\* C21: get_proxy returns the first proxy in load order that is eligible
\* and sets the last-used time of its IP, and of no other, to the current
\* time; it returns none, and leaves the last-used times alone, exactly when
\* no proxy is eligible.  The first attempt of every crawl uses that proxy.
C21_FirstEligibleProxy ==
    /\ [](LET g == GetProxy(blocked_ips, ip_last_used, now) IN
          IF Eligible = {}
          THEN g.proxy = NoProxy /\ g.last_used = ip_last_used
          ELSE /\ g.proxy = FormatProxyUrl(proxy_list[FirstEligible])
               /\ g.last_used = DictSet(ip_last_used, proxy_list[FirstEligible].host, now))
    /\ [][\A w \in Workers : JustCrawled(w) =>
            LET trace == obs'.run[w].trace IN
            IF Eligible = {} THEN trace = <<>>
            ELSE /\ trace # <<>>
                 /\ trace[1].proxy = FormatProxyUrl(proxy_list[FirstEligible])]_vars

\* a crawl has gone through the second proxy of the list while the first
\* one was in its cool-down
C21_SecondProxyTaken ==
    \E w \in Workers :
        /\ obs.run[w].ran
        /\ Len(proxy_list) = 2
        /\ obs.run[w].trace # <<>>
        /\ obs.run[w].trace[1].proxy = FormatProxyUrl(proxy_list[2])
        /\ proxy_list[1].host \in DOMAIN ip_last_used
        /\ obs.run[w].trace[1].at - ip_last_used[proxy_list[1].host] < MIN_REQUEST_INTERVAL

(***************************************************************************)
(* Statements about the messages, checked under Spec.                      *)
(***************************************************************************)
\* the kinds of message, by the keys their makers give them
RequiredKeys == {"url", "author", "source"}
IsHeartbeat(m) == "heartbeat" \in DOMAIN m
IsResult(m) == "task_data" \in DOMAIN m
IsTask(m) == ~IsHeartbeat(m) /\ ~IsResult(m) /\ RequiredKeys \subseteq DOMAIN m

\* every message on the queue or delivered and not yet acknowledged
Messages == {queue[k] : k \in DOMAIN queue} \cup {inflight[u] : u \in Units}

\* steps of the units, told by their control positions
CoordHandles == co.pc = "process" /\ co'.pc = "ack"
CoordAcks == co.pc = "ack" /\ co'.pc = "idle"
WorkerProcesses(w) == wk[w].pc = "process" /\ wk'[w].pc = "ack"
WorkerAcks(w) == wk[w].pc = "ack" /\ wk'[w].pc = "idle"

\* C1: every Task message has 0 <= retry_count <= MAX_RETRIES; handling an
\* error Result whose task has retry_count = k < MAX_RETRIES publishes
\* exactly one Task, with retry_count = k+1 and status pending, and handling
\* one whose task has retry_count >= MAX_RETRIES publishes nothing.
C1_RetryCountBounded ==
    /\ [](\A m \in Messages :
             IsTask(m) => m.retry_count >= 0 /\ m.retry_count <= MAX_RETRIES)
    /\ [][LET data == inflight[CoordinatorUnit] IN
          (/\ CoordHandles
           /\ IsResult(data)
           /\ data.status = "error"
           /\ IsTask(data.task_data))
              => LET k == data.task_data.retry_count IN
                 IF k < MAX_RETRIES
                 THEN queue' = Append(queue, [data.task_data EXCEPT
                                                 !.retry_count = k + 1,
                                                 !.status = "pending"])
                 ELSE queue' = queue]_vars

\* the Coordinator has handled the failure of a Task that was retried
\* MAX_RETRIES times, and no Task is left anywhere
C1_FinalFailureHandled ==
    LET data == inflight[CoordinatorUnit] IN
    /\ co.pc = "ack"
    /\ IsResult(data)
    /\ data.status = "error"
    /\ IsTask(data.task_data)
    /\ data.task_data.retry_count = MAX_RETRIES
    /\ \A m \in Messages : ~IsTask(m)

\* C4: for a well-formed Task that a Worker has dequeued, process_task
\* publishes exactly one Result, with status success or error, task_data
\* equal to the Task and node_id the Worker's, and the delivery of the Task
\* is acknowledged only after that.  (The broker is reachable throughout.)
C4_OneResultBeforeAck ==
    [][\A w \in Workers :
          LET task == inflight[w] IN
          IsTask(task) =>
            /\ WorkerProcesses(w) =>
                 /\ Len(obs'.sent[w]) = 1
                 /\ queue' = Append(queue, obs'.sent[w][1])
                 /\ IsResult(obs'.sent[w][1])
                 /\ obs'.sent[w][1].status \in {"success", "error"}
                 /\ obs'.sent[w][1].task_data = task
                 /\ obs'.sent[w][1].node_id = w
                 /\ inflight'[w] = task
            /\ WorkerAcks(w) => Len(obs.sent[w]) = 1]_vars

\* a Worker is about to acknowledge a Task whose crawl returned None, with
\* the error Result for it published
C4_ResultPublishedUnacked ==
    \E w \in Workers :
        /\ wk[w].pc = "ack"
        /\ IsTask(inflight[w])
        /\ obs.sent[w] = <<ResultOf(ReturnsNone, inflight[w], w)>>
        /\ queue # <<>>
        /\ queue[Len(queue)] = obs.sent[w][1]

\* C5: process_task on a Task object that lacks url, author or source
\* publishes nothing, acquires no proxy, makes no request and returns, and
\* the Worker goes on to acknowledge the delivery.
C5_MalformedTaskDropped ==
    [][\A w \in Workers :
          LET task == inflight[w] IN
          (/\ wk[w].pc = "process"
           /\ wk'[w].pc # "process"
           /\ task # NoMsg
           /\ ~IsRaw(task)
           /\ ~IsNonObject(task)
           /\ ~IsHeartbeat(task)
           /\ ~(RequiredKeys \subseteq DOMAIN task))
              => /\ queue' = queue
                 /\ pmVars' = pmVars
                 /\ obs'.crawls = obs.crawls
                 /\ obs'.sent[w] = <<>>
                 /\ inflight' = inflight
                 /\ wk'[w].pc = "ack"]_vars

\* a Worker is about to acknowledge a Task without url, nothing published
C5_MalformedTaskAtAck ==
    \E w \in Workers :
        /\ wk[w].pc = "ack"
        /\ inflight[w] = MalformedTask
        /\ obs.sent[w] = <<>>

\* C6: the Coordinator's dequeue step never acknowledges a pending Task
\* message: a Task leaves the queue only through a Worker.
C6_CoordinatorNeverAcksTask ==
    [][CoordAcks => ~IsTask(inflight[CoordinatorUnit])]_vars

\* C7: no Worker dequeues a Result message and removes it from the queue.
C7_WorkerNeverAcksResult ==
    [][\A w \in Workers : WorkerAcks(w) => ~IsResult(inflight[w])]_vars

\* C8: Heartbeats are consumed by the Coordinator, which refreshes its
\* liveness map from each, and by no Worker polling the same queue.
C8_WorkerNeverAcksHeartbeat ==
    [][\A w \in Workers : WorkerAcks(w) => ~IsHeartbeat(inflight[w])]_vars

\* the answer to the last request of a crawl, "" when it made none
LastResponse(run) ==
    IF run.trace = <<>> THEN "" ELSE run.trace[Len(run.trace)].resp

CoordGenerates == co.pc = "idle" /\ co'.pc = "get"

\* what the step appended to the queue
Generated == SubSeq(queue', Len(queue) + 1, Len(queue'))

\* the author is reported by get_authors_for_crawling
ReportedDue(a) ==
    \/ last_crawl[a] = NoTime
    \/ last_crawl[a] < now - (IF AuthorRow(a).source = "google"
                              THEN GOOGLE_SCHOLAR_INTERVAL ELSE DBLP_INTERVAL)

C13_NothingAboveMark ==
    [][(CoordGenerates /\ Len(queue) > QUEUE_HIGH_WATER)
        => /\ queue' = queue
           /\ last_crawl' = last_crawl]_vars

\* a round has passed on a queue of 600 with an author never crawled and
\* another crawled longer ago than its interval
C13_SkippedWithStaleAuthors ==
    /\ co.pc = "get"
    /\ obs.crawls = 1
    /\ Len(queue) = QUEUE_HIGH_WATER + 100
    /\ last_crawl[1] = NoTime
    /\ last_crawl[2] # NoTime
    /\ last_crawl[2] < now - DBLP_INTERVAL

\* process_result applies a success Result to the RecordStore
AppliesSuccess ==
    /\ CoordHandles
    /\ ~co'.failed
    /\ IsResult(inflight[CoordinatorUnit])
    /\ inflight[CoordinatorUnit].status = "success"
    /\ {"url", "author_id"} \subseteq DOMAIN inflight[CoordinatorUnit].task_data

\* C14: applying a success Result leaves at most one row for each
\* (author_id, title), the row of each of its publications has the year the
\* Result gives, and applying the same Result once more would leave the
\* store as it is.
C14_UpsertIdempotent ==
    [][AppliesSuccess
        => LET R == inflight[CoordinatorUnit]
               a == R.task_data.author_id
           IN  /\ \A r1, r2 \in publications' : SameKey(r1, r2) => r1 = r2
               /\ \A k \in 1..Len(R.publications) :
                     PubRow(a, R.publications[k]) \in publications'
               /\ Upsert(publications', a, R.publications) = publications']_vars

\* the same success Result has been applied twice: one row
C14_AppliedTwice ==
    /\ Len(obs.handled) = 2
    /\ obs.handled[1] = obs.handled[2]
    /\ ~obs.handled[2].failed
    /\ IsResult(obs.handled[2].msg)
    /\ obs.handled[2].msg.status = "success"
    /\ obs.handled[2].msg.publications = <<Republished("google")>>
    /\ "url" \in DOMAIN obs.handled[2].msg.task_data
    /\ publications = {PubRow(1, Republished("google"))}

\* C15: processing a Heartbeat changes at most the liveness-map entry of
\* its node_id: the authors' last_crawl and the publications stay as they
\* are, no RecordStore call can fail, and the queue is left as it is.
C15_HeartbeatTouchesOnlyItsNode ==
    [][(CoordHandles /\ Truthy(inflight[CoordinatorUnit], "heartbeat"))
        => LET hb == inflight[CoordinatorUnit] IN
           /\ dbVars' = dbVars
           /\ ~co'.failed
           /\ queue' = queue
           /\ DOMAIN active_nodes' \subseteq
                 DOMAIN active_nodes \cup (IF "node_id" \in DOMAIN hb THEN {hb.node_id} ELSE {})
           /\ \A n \in DOMAIN active_nodes :
                 ("node_id" \in DOMAIN hb => n # hb.node_id)
                    => n \in DOMAIN active_nodes' /\ active_nodes'[n] = active_nodes[n]
           /\ "node_id" \in DOMAIN hb
                 => hb.node_id \in DOMAIN active_nodes' /\ active_nodes'[hb.node_id] = now]_vars

\* the Heartbeat of node 2 has been processed after the one of node 1,
\* whose entry is older, with an author crawled before
C15_SecondNodeRecorded ==
    /\ co.pc = "ack"
    /\ inflight[CoordinatorUnit] = Heartbeat(2)
    /\ DOMAIN active_nodes = {1, 2}
    /\ active_nodes[1] < now
    /\ active_nodes[2] = now
    /\ last_crawl[1] # NoTime

\* a Result with status success or error whose task_data lacks a required key
MalformedResult(m) ==
    /\ IsResult(m)
    /\ ~IsHeartbeat(m)
    /\ Get(m, "status", None) \in {"success", "error"}
    /\ ~(RequiredKeys \subseteq DOMAIN m.task_data)

\* C16: process_result on a malformed Result writes nothing to the
\* RecordStore, publishes nothing and leaves the liveness map unchanged.
C16_MalformedResultDropped ==
    [][(CoordHandles /\ MalformedResult(inflight[CoordinatorUnit]))
        => /\ dbVars' = dbVars
           /\ queue' = queue
           /\ active_nodes' = active_nodes]_vars

\* C17: the Coordinator acknowledges a message only when process_result
\* handled it without a failure of the RecordStore.
C17_AckOnlyAfterSuccess ==
    [][CoordAcks => ~co.failed]_vars

\* the deliveries a unit has left unsettled
HeldBy(u) == IF u = CoordinatorUnit THEN co.held ELSE wk[u].held

\* a unit is done with a delivery whose body is not JSON
Rejects(u) == IsRaw(inflight[u]) /\ inflight'[u] = NoMsg

\* C18: a unit that is done with a delivery whose body is not JSON has
\* negatively acknowledged it, so that no such delivery is left unsettled
\* for the broker to deliver again, and has changed nothing else.
C18_UndecodableRejected ==
    [][\A u \in Units :
          Rejects(u) => /\ HeldBy(u)' = HeldBy(u)
                        /\ queue' = queue
                        /\ dbVars' = dbVars
                        /\ active_nodes' = active_nodes]_vars

(***************************************************************************)
(* Statements about the threads of main.py (LifeSpec).                     *)
(***************************************************************************)
\* an iteration of unit u has failed on its channel
FailedIteration(u) == life'.errors[u] > life.errors[u]

\* C19: an iteration that fails on a connection error never ends the
\* unit's loop, and when the broker is reachable the unit has a working
\* channel again once the iteration is over.
C19_ReconnectsAndGoesOn ==
    [][\A u \in LifeUnits :
          FailedIteration(u)
             => /\ life'.thread[u] = "run"
                /\ life.broker = "up" => life'.conn[u]]_vars

\* C20: once the shutdown flag is set no unit begins an iteration; a unit
\* leaves its loop only into cleanup, which ends with its connection closed
\* and the thread stopped, and between two iterations with the flag set it
\* can do so; and main, once it joins, can always go on to the next join or
\* to the end, whether or not the unit it waits for has stopped.
C20_CooperativeShutdown ==
    /\ [][\A u \in LifeUnits :
            /\ (life.shutdown /\ PcOf(u) = "idle")
                  => /\ PcOf(u)' = "idle"
                     /\ ~FailedIteration(u)
            /\ (life.thread[u] = "run" /\ life'.thread[u] # "run")
                  => life'.thread[u] = "cleanup"
            /\ (life.thread[u] = "cleanup" /\ life'.thread[u] # "cleanup")
                  => life'.thread[u] = "stopped" /\ ~life'.conn[u]]_vars
    /\ [](\A u \in LifeUnits :
            (life.shutdown /\ InLoop(u) /\ PcOf(u) = "idle") => ENABLED LLeave(u))
    /\ [](life.main = "join" => ENABLED MJoin)

\* main has completed the shutdown while the Coordinator has stopped after
\* its cleanup and a Worker is still inside the iteration it was in
C20_DoneWithWorkerInFlight ==
    /\ life.main = "done"
    /\ life.thread[CoordinatorUnit] = "stopped"
    /\ ~life.conn[CoordinatorUnit]
    /\ \E w \in Crawlers : life.thread[w] = "run" /\ wk[w].pc = "process"

(***************************************************************************)
(* Further statements about the Workers (Spec).                            *)
(***************************************************************************)
\* the crawl ended on a get_proxy that returned none: it made fewer than
\* max_retries attempts and none of them ended it
NoProxyLeft(run) ==
    /\ run.ran
    /\ Len(run.trace) < max_retries
    /\ \A k \in DOMAIN run.trace : run.trace[k].resp \in {"exception", "badpage"}

ExhaustionResult(w) ==
    [status |-> "error", task_data |-> inflight[w],
     error |-> "No proxies available", node_id |-> w]

\* C22: when get_proxy returns none, crawl raises without another request
\* and without blocking a proxy, process_task publishes one error Result
\* for the Task and the Worker goes on to acknowledge it; the Coordinator
\* re-publishes the Task of such a Result while retry_count < MAX_RETRIES.
C22_ExhaustionYieldsErrorResult ==
    /\ [][\A w \in Workers :
            (WorkerProcesses(w) /\ NoProxyLeft(obs'.run[w]))
               => /\ obs'.run[w].outcome.kind = "raise"
                  /\ \A ip \in DOMAIN blocked_ips' :
                        ip \in DOMAIN blocked_ips /\ blocked_ips'[ip] = blocked_ips[ip]
                  /\ queue' = Append(queue, ExhaustionResult(w))
                  /\ inflight' = inflight]_vars
    /\ [][(/\ CoordHandles
           /\ IsResult(inflight[CoordinatorUnit])
           /\ Get(inflight[CoordinatorUnit], "error", None) = "No proxies available"
           /\ inflight[CoordinatorUnit].task_data.retry_count < MAX_RETRIES)
              => queue' = Append(queue,
                    [inflight[CoordinatorUnit].task_data EXCEPT
                        !.retry_count = @ + 1, !.status = "pending"])]_vars

\* a Worker about to acknowledge a Task for which the first get_proxy
\* returned none, the error Result published
C22_ExhaustedAtFirstCall ==
    \E w \in Workers :
        /\ wk[w].pc = "ack"
        /\ obs.run[w].ran
        /\ obs.run[w].trace = <<>>
        /\ obs.sent[w] = <<ExhaustionResult(w)>>

(***************************************************************************)
(* Further statements about the Coordinator (CoordSpec).                   *)
(***************************************************************************)
\* C23: at a queue depth of exactly the high-water mark, generate_tasks
\* still emits a Task for every due author.
C23_GeneratesAtTheMark ==
    [][(CoordGenerates /\ Len(queue) = QUEUE_HIGH_WATER)
        => \A a \in Authors :
              ReportedDue(a) => \E k \in 1..Len(Generated) : Generated[k].author_id = a]_vars

\* a Result of the given status whose task_data is a whole Task
WellFormedResult(m, status) ==
    /\ IsResult(m)
    /\ ~IsHeartbeat(m)
    /\ Get(m, "status", None) = status
    /\ RequiredKeys \cup {"author_id", "retry_count"} \subseteq DOMAIN m.task_data

\* C24: processing a well-formed error Result, the RecordStore answering,
\* re-publishes its task with retry_count + 1 while retry_count <
\* MAX_RETRIES and publishes nothing otherwise, and in both cases sets
\* last_crawl of task_data.author_id, and of no other author, to now.
C24_ErrorResultRetriesAndMarks ==
    [][(/\ CoordHandles
        /\ WellFormedResult(inflight[CoordinatorUnit], "error")
        /\ ~co'.failed)
          => LET t == inflight[CoordinatorUnit].task_data IN
             /\ last_crawl' = [last_crawl EXCEPT ![t.author_id] = now]
             /\ publications' = publications
             /\ queue' = IF t.retry_count < MAX_RETRIES
                         THEN Append(queue, [t EXCEPT !.retry_count = @ + 1,
                                                      !.status = "pending"])
                         ELSE queue]_vars

\* the error Result of a task that had used up its retries has been
\* processed some time after the start: nothing re-published, last_crawl set
C24_TerminalErrorMarked ==
    /\ co.pc = "ack"
    /\ ~co.failed
    /\ WellFormedResult(inflight[CoordinatorUnit], "error")
    /\ inflight[CoordinatorUnit].task_data.retry_count = MAX_RETRIES
    /\ now > 0
    /\ last_crawl[1] = now
    /\ queue = <<>>

\* C25: processing a well-formed success Result, the RecordStore answering,
\* stores a row for each of its publications under task_data.author_id,
\* sets that author's last_crawl to now, leaves the last_crawl and the rows
\* of every other author as they are, and publishes nothing.
C25_SuccessResultStored ==
    [][(/\ CoordHandles
        /\ WellFormedResult(inflight[CoordinatorUnit], "success")
        /\ ~co'.failed)
          => LET R == inflight[CoordinatorUnit]
                 a == R.task_data.author_id
             IN  /\ last_crawl' = [last_crawl EXCEPT ![a] = now]
                 /\ \A k \in 1..Len(R.publications) :
                       PubRow(a, R.publications[k]) \in publications'
                 /\ {r \in publications' : r.author_id # a}
                       = {r \in publications : r.author_id # a}
                 /\ queue' = queue
                 /\ active_nodes' = active_nodes]_vars

\* a success Result for author 1 has been stored some time after one for
\* author 2, whose row and last_crawl are as they were
C25_StoredBesideOtherAuthor ==
    /\ co.pc = "ack"
    /\ ~co.failed
    /\ WellFormedResult(inflight[CoordinatorUnit], "success")
    /\ inflight[CoordinatorUnit].task_data.author_id = 1
    /\ PubRow(1, Publication("google")) \in publications
    /\ PubRow(2, Publication("dblp")) \in publications
    /\ last_crawl[1] = now
    /\ last_crawl[2] # NoTime
    /\ last_crawl[2] < now

\* C26: right after check_node_health the liveness map holds exactly the
\* nodes it held before whose last heartbeat is at most 2*HEARTBEAT_INTERVAL
\* old, each with its time; no other step of the Coordinator removes a
\* node; and a round in which generate_tasks has nothing to emit leaves the
\* queue and the RecordStore as they are.
C26_HealthCheckKeepsTheLive ==
    /\ [][CoordGenerates
            => /\ DOMAIN active_nodes' =
                    {n \in DOMAIN active_nodes :
                        now - active_nodes[n] <= 2 * HEARTBEAT_INTERVAL}
               /\ \A n \in DOMAIN active_nodes' : active_nodes'[n] = active_nodes[n]]_vars
    /\ [][~CoordGenerates => DOMAIN active_nodes \subseteq DOMAIN active_nodes']_vars
    /\ [][(CoordGenerates /\ \A a \in Authors : ~ReportedDue(a))
            => queue' = queue /\ dbVars' = dbVars]_vars

\* the round after the Heartbeats of nodes 1 and 2 were processed a second
\* apart has removed node 1 and kept node 2, whose Heartbeat is exactly
\* 2*HEARTBEAT_INTERVAL old
C26_SilentNodeRemoved ==
    /\ co.pc = "get"
    /\ Len(obs.handled) = 2
    /\ obs.handled[1].msg = Heartbeat(1)
    /\ DOMAIN active_nodes = {2}
    /\ now - active_nodes[2] = 2 * HEARTBEAT_INTERVAL

C28_ReleasedOnEveryPath ==
    [][\A w \in Workers : JustCrawled(w) =>
          \A k \in DOMAIN obs'.run[w].trace :
             LET ip == HandleIp(obs'.run[w].trace[k].proxy)
             IN  /\ ip \notin DOMAIN ip_last_used'
                 /\ ~Cooling(ip, ip_last_used', now')]_vars

\* the requests of the crawls on record: the worker, the position in its
\* crawl, the IP of the proxy and the time get_proxy handed it out
RequestsOnRecord ==
    {[w |-> r[1], k |-> r[2], ip |-> HandleIp(obs.run[r[1]].trace[r[2]].proxy),
      at |-> obs.run[r[1]].trace[r[2]].at] :
        r \in {x \in Workers \X (1..max_retries) : x[2] \in DOMAIN obs.run[x[1]].trace}}

\* C29: two requests issued through the same proxy IP, by one Worker or by
\* two, start at least MIN_REQUEST_INTERVAL apart.
C29_RequestsSpacedPerIp ==
    \A r1, r2 \in RequestsOnRecord :
        (r1 # r2 /\ r1.ip = r2.ip /\ r1.at <= r2.at)
            => r2.at - r1.at >= MIN_REQUEST_INTERVAL

\* attempt k of the crawl got a 2xx response and failed afterwards: the
\* source is unknown, or the page could not be parsed
FailedAfter2xx(run, k) ==
    \/ run.trace[k].resp \in ParseFailures
    \/ run.trace[k].resp = "ok" /\ run.outcome.kind # "return"

\* C30: an attempt that fails after a 2xx response (unknown source, parsing
\* failure) is the last attempt of its crawl, and the crawl raises.
C30_FailureAfter2xxIsTerminal ==
    \A w \in Workers :
        LET run == obs.run[w] IN
        run.ran => \A k \in DOMAIN run.trace :
                      FailedAfter2xx(run, k)
                          => k = Len(run.trace) /\ run.outcome.kind = "raise"

\* C31: crawl never returns normally without a publication sequence, and a
\* crawl that made all 3 attempts without success raises, the error field
\* of the Result published for it being the message of that error.
C31_ExhaustionSurfacesLastError ==
    \A w \in Workers :
        LET run == obs.run[w] IN
        run.ran =>
            /\ run.outcome.kind # "return_none"
            /\ (Len(run.trace) = max_retries /\ run.outcome.kind # "return")
                  => /\ run.outcome.kind = "raise"
                     /\ Len(obs.sent[w]) = 1
                     /\ obs.sent[w][1].status = "error"
                     /\ obs.sent[w][1].error = run.outcome.msg

\* a message that is no Task, no Heartbeat and no Result: a body that is not
\* JSON, JSON that is not an object, or an object lacking url, author or source
MalformedMessage(m) ==
    /\ m # NoMsg
    /\ \/ IsRaw(m)
       \/ IsNonObject(m)
       \/ ~IsHeartbeat(m) /\ ~IsResult(m) /\ ~(RequiredKeys \subseteq DOMAIN m)

\* C32: when a Worker has dealt with a malformed message it dequeued, no
\* Result was published, the message is not back on the queue and the Worker
\* holds no unsettled delivery that the broker would deliver again.
C32_MalformedRemovedForGood ==
    [][\A w \in Workers :
          (/\ wk[w].pc = "process"
           /\ wk'[w].pc # "process"
           /\ MalformedMessage(inflight[w]))
              => /\ queue' = queue
                 /\ obs'.sent[w] = <<>>
                 /\ wk'[w].held = wk[w].held]_vars

\* the message is a Task for author a, or the Result of such a Task
Concerns(m, a) ==
    \/ IsTask(m) /\ Get(m, "author_id", None) = a
    \/ IsResult(m) /\ Get(m.task_data, "author_id", None) = a

\* a Task for author a, or its Result, is on the queue or held by a unit
Pending(a) == \E m \in Messages : Concerns(m, a)

\* the Result is a terminal outcome: a success, or the error of a Task that
\* has used up its retries
TerminalResult(m) ==
    /\ IsResult(m)
    /\ \/ Get(m, "status", None) = "success"
       \/ /\ Get(m, "status", None) = "error"
          /\ Get(m.task_data, "retry_count", 0) >= MAX_RETRIES

\* C33: a Task published by the Coordinator reaches a terminal outcome at the
\* Coordinator.  What the semantics of the queue can guarantee of it: the
\* Task and its Results leave the system only when the Coordinator
\* acknowledges a terminal Result of that Task; before that, some message
\* of the Task is always on the queue or held by a unit.
C33_TaskLeavesOnlyWhenTerminal ==
    [][\A a \in Authors :
          (Pending(a) /\ ~Pending(a)')
              => /\ CoordAcks
                 /\ Concerns(inflight[CoordinatorUnit], a)
                 /\ TerminalResult(inflight[CoordinatorUnit])]_vars

\* the Task messages of author a with the given retry_count that are on the
\* queue or held by a unit
TaskCopies(a, r) ==
    Cardinality({k \in DOMAIN queue :
                    IsTask(queue[k]) /\ queue[k].author_id = a
                        /\ queue[k].retry_count = r})
    + Cardinality({u \in Units :
                    IsTask(inflight[u]) /\ inflight[u].author_id = a
                        /\ inflight[u].retry_count = r})

\* C34: for one generated Task at most one Task message per retry_count is
\* ever published, also when the queue delivers a Task again: at no time
\* are there two Task messages of one author with the same retry_count.
C34_OneTaskPerRetryCount ==
    \A a \in Authors : \A r \in 0..MAX_RETRIES : TaskCopies(a, r) <= 1

\* the deliveries unit u has received and neither acknowledged nor rejected
Unsettled(u) == Len(HeldBy(u)) + (IF inflight[u] = NoMsg THEN 0 ELSE 1)

\* C35: a unit holds at most one unsettled delivery at any time and none
\* between two iterations of run_once.
C35_OneDeliverySettledPerIteration ==
    \A u \in Units :
        /\ Unsettled(u) <= 1
        /\ (IF u = CoordinatorUnit THEN co.pc ELSE wk[u].pc) = "idle"
              => Unsettled(u) = 0

\* C36: generate_tasks sets last_crawl only of authors for which it returns
\* a Task, also when an update_last_crawl of the call raises.
C36_MarkedOnlyWithTask ==
    [][CoordGenerates
        => \A a \in DOMAIN last_crawl :
              last_crawl'[a] # last_crawl[a]
                  => \E k \in 1..Len(Generated) : Generated[k].author_id = a]_vars

\* C37: when the RecordStore fails while a success Result is applied,
\* neither the author's last_crawl is advanced nor a publication row of the
\* Result stored.
C37_UpsertAllOrNothing ==
    [][(/\ CoordHandles
        /\ WellFormedResult(inflight[CoordinatorUnit], "success")
        /\ co'.failed)
          => last_crawl' = last_crawl /\ publications' = publications]_vars

\* thread t's step is a call of mark_blocked / of release_proxy
MarksStep(t) == wk[t].pc = "holding" /\ wk'[t].pc = "marked"
ReleasesStep(t) == wk[t].pc \in {"holding", "marked"} /\ wk'[t].pc = "idle"

\* C38: release_proxy leaves the blocked map as it is; mark_blocked leaves
\* the last-used map as it is and removes or shortens no block; neither
\* changes the proxy list.
C38_MarkAndReleaseFrames ==
    [][\A t \in Workers :
          /\ ReleasesStep(t) => blocked_ips' = blocked_ips /\ proxy_list' = proxy_list
          /\ MarksStep(t)
                => /\ ip_last_used' = ip_last_used
                   /\ proxy_list' = proxy_list
                   /\ \A ip \in DOMAIN blocked_ips :
                         /\ ip \in DOMAIN blocked_ips'
                         /\ blocked_ips'[ip] >= blocked_ips[ip]]_vars

\* the proxy with credentials was marked blocked and then released: its
\* block stands, its last-used entry is gone, and no thread is in a call
C38_ReleasedWhileBlocked ==
    /\ AuthProxy.host \in DOMAIN blocked_ips
    /\ AuthProxy.host \notin DOMAIN ip_last_used
    /\ \A t \in Workers : wk[t].pc = "idle"

=============================================================================
